---- MODULE Spec2Model ----
(***************************************************************************)
(* Model of app.py: a Flask front end for the MET collection API.          *)
(*                                                                         *)
(* The process state is the two lru_cache memo tables (get_object,         *)
(* get_departments).  The handlers (object_detail, random_pick, index) run *)
(* one at a time; each loop iteration that issues a lookup is one step.    *)
(* Every upstream HTTP call is an input of the step that makes it: it      *)
(* either fails (requests.RequestException, re-raised as MetAPIError by    *)
(* _get_json) or returns a JSON value.                                     *)
(*                                                                         *)
(* An optional value (Python None / a raised MetAPIError) is a sequence of *)
(* length 0 or 1: None == <<>>, Some(x) == <<x>>.                          *)
(***************************************************************************)
EXTENDS Integers, Sequences, FiniteSets, TLC

\* ---- bounds of the model ----
MaxId == 3          \* object identifiers are 1..MaxId
CacheSize == 2      \* stands for lru_cache(maxsize=4096) of get_object, scaled down
MaxLen == 3         \* longest identifier list an upstream call returns
MaxTries == 3       \* largest max_tries handed to pick_random_object
MaxPage == 4        \* largest page number requested
MaxTotal == 7       \* largest result count in the pagination specification

\* ---- program constants ----
DefaultPage == 1
DefaultPageSize == 12
MaxPageSize == 24

None == <<>>
Some(x) == <<x>>

Ids == 1..MaxId

Max(a, b) == IF a >= b THEN a ELSE b
Min(a, b) == IF a <= b THEN a ELSE b

\* An object record as the upstream returns it for /objects/{id}: only the
\* fields the code reads for control flow are kept.  "" is an absent or empty
\* field.  A record carrying both references behaves as the small-only one
\* on every path (line 81, line 304), so it is not enumerated.
Obj(id, small, large) ==
    [objectID |-> id, primaryImageSmall |-> small, primaryImage |-> large]

Images == {<<"", "">>, <<"s.jpg", "">>, <<"", "p.jpg">>}

Objects(id) == {Obj(id, im[1], im[2]) : im \in Images}

\* Outcome of GET /objects/{id} through _get_json: None is MetAPIError.
ObjectReplies(id) == {None} \cup {Some(o) : o \in Objects(id)}

\* ---- functools.lru_cache around get_object ----
\* cache is a sequence of [id, obj] entries, least recently used first.

RECURSIVE Find(_, _)
Find(c, oid) ==
    IF c = <<>> THEN 0
    ELSE IF c[Len(c)].id = oid THEN Len(c)
    ELSE Find(SubSeq(c, 1, Len(c) - 1), oid)

Without(c, k) == SubSeq(c, 1, k - 1) \o SubSeq(c, k + 1, Len(c))

\* faulty variant: a hit leaves the order alone: first in, first out
Touch_fifo(c, k) == c

\* a hit moves the entry to the most-recently-used end
Touch(c, k) == Without(c, k) \o <<c[k]>>

\* a stored result evicts the least recently used entry when the table is full
Store(c, e) ==
    IF Len(c) >= CacheSize THEN Append(Tail(c), e) ELSE Append(c, e)

\* faulty variant: a failed lookup is remembered as an empty record
get_object_memo_failure(c, oid, up) ==
    LET k == Find(c, oid) IN
    IF k > 0
    THEN [cache |-> Touch(c, k), ret |-> Some(c[k].obj), fetched |-> FALSE]
    ELSE IF up = None
    THEN [cache |-> Store(c, [id |-> oid, obj |-> Obj(oid, "", "")]), ret |-> None,
          fetched |-> TRUE]
    ELSE [cache |-> Store(c, [id |-> oid, obj |-> up[1]]), ret |-> up, fetched |-> TRUE]

\* get_object(object_id) on table c, where `up` is what the upstream would
\* answer if asked.  ret = None: MetAPIError propagates (nothing is stored).
\* fetched: an upstream request was issued.
get_object(c, oid, up) ==
    LET k == Find(c, oid) IN
    IF k > 0
    THEN [cache |-> Touch(c, k), ret |-> Some(c[k].obj), fetched |-> FALSE]
    ELSE IF up = None
    THEN [cache |-> c, ret |-> None, fetched |-> TRUE]
    ELSE [cache |-> Store(c, [id |-> oid, obj |-> up[1]]), ret |-> up, fetched |-> TRUE]

\* The upstream is asked only on a miss; on a hit no request exists and the
\* reply handed to get_object is immaterial.
RepliesTo(c, oid) == IF Find(c, oid) > 0 THEN {None} ELSE ObjectReplies(oid)

\* Outcome of GET /departments through _get_json and data.get("departments", []):
\* None is MetAPIError, <<>> inside Some is a reply without the key.
DeptReplies == {None, Some(<<>>), Some(<<1, 2>>)}

\* get_departments() on the one-slot table d (None: empty)
get_departments(d, up) ==
    IF d /= None
    THEN [cache |-> d, ret |-> d, fetched |-> FALSE]
    ELSE IF up = None
    THEN [cache |-> d, ret |-> None, fetched |-> TRUE]
    ELSE [cache |-> up, ret |-> up, fetched |-> TRUE]

DeptRepliesTo(d) == IF d /= None THEN {None} ELSE DeptReplies

\* A reply of GET /objects or GET /search carries "objectIDs" as a list, as
\* JSON null, or not at all.
Tagged(t, v) == [t |-> t, v |-> v]

RECURSIVE SeqsUpTo(_, _)
SeqsUpTo(S, n) ==
    IF n = 0 THEN {<<>>}
    ELSE LET shorter == SeqsUpTo(S, n - 1) IN
         shorter \cup {Append(l, x) : l \in {m \in shorter : Len(m) = n - 1}, x \in S}

Range(l) == {l[k] : k \in 1..Len(l)}

Ascending(l) == \A k \in 1..(Len(l) - 1) : l[k] < l[k + 1]

\* identifier lists GET /search may return: any order, repetitions allowed
SearchLists == SeqsUpTo(Ids, MaxLen)

\* identifier lists GET /objects may return: the upstream lists every object
\* once, in ascending order
AllIdLists == {l \in SeqsUpTo(Ids, MaxId) : Ascending(l)}

IdsReplies(lists) ==
    {None, Some([objectIDs |-> Tagged("absent", <<>>)]), Some([objectIDs |-> Tagged("null", <<>>)])}
        \cup {Some([objectIDs |-> Tagged("list", l)]) : l \in lists}

\* data.get("objectIDs") or []
ObjectIDsOrEmpty(data) ==
    IF data.objectIDs.t = "list" THEN data.objectIDs.v ELSE <<>>

\* what the claims call "a record that carries a primary-image reference"
CarriesImage(obj) == obj.primaryImageSmall /= "" \/ obj.primaryImage /= ""

VARIABLES
    cache,       \* memo table of get_object, least recently used first
    deptCache,   \* memo slot of get_departments (None: empty)
    pc,          \* "idle" (nothing served yet), "pick", "index", "done" (response sent)
    resp,        \* the last response: handler and HTTP status
    pick,        \* locals and observations of the current pick_random_object call
    view,        \* locals and observations of the current index call
    call,        \* the get_object call made by the last step (None: the step made none)
    dcall,       \* the get_departments call made by the last step
    hist,        \* per id: the record get_object last returned, and the other ids returned since
    failedLast,  \* ids whose most recent get_object call raised
    deptFailed,  \* the most recent get_departments call raised
    before,      \* what hist and failedLast said about the looked-up id before the last call
    fin,         \* inputs of the pure-function specifications
    fout         \* their results

vars == <<cache, deptCache, pc, resp, pick, view, call, dcall, hist, failedLast,
          deptFailed, before, fin, fout>>

Ready == {"idle", "done"}

NoPick ==
    [all_ids |-> <<>>, max_tries |-> 0, tries |-> 0, result |-> None,
     list |-> "none", draws |-> 0, withImage |-> 0, nFail |-> 0]

NoView ==
    [searched |-> FALSE, given |-> FALSE, search |-> "none", ids |-> <<>>, page |-> 0, page_size |-> 0,
     departments |-> <<>>, dept_note |-> None, total |-> 0, page_ids |-> <<>>, i |-> 0,
     results |-> <<>>, error_msg |-> None, shown |-> None, pagination |-> <<>>,
     total_pages |-> 0, log |-> <<>>]

NoResp == [handler |-> "", status |-> 0]

Cold ==
    /\ cache = <<>>
    /\ deptCache = None
    /\ pc = "idle"
    /\ resp = NoResp
    /\ pick = NoPick
    /\ view = NoView
    /\ call = None
    /\ dcall = None
    /\ hist = [j \in Ids |-> None]
    /\ failedLast = {}
    /\ deptFailed = FALSE
    /\ before = None

\* ---- history of get_object calls (observation only) ----
Before(oid) ==
    [prev |-> IF hist[oid] = None THEN None ELSE Some(hist[oid][1].obj),
     gap |-> IF hist[oid] = None THEN 0 - 1 ELSE Cardinality(hist[oid][1].since),
     refail |-> oid \in failedLast]

Track(oid, r) ==
    /\ before' = Some(Before(oid))
    /\ hist' = IF r.ret = None THEN hist
               ELSE [j \in Ids |->
                       IF j = oid THEN Some([obj |-> r.ret[1], since |-> {}])
                       ELSE IF hist[j] = None THEN None
                       ELSE Some([hist[j][1] EXCEPT !.since = @ \cup {oid}])]
    /\ failedLast' = IF r.ret = None THEN failedLast \cup {oid} ELSE failedLast \ {oid}

Untracked == before' = None /\ UNCHANGED <<hist, failedLast>>

CallOf(oid, r) == Some([id |-> oid, ret |-> r.ret, fetched |-> r.fetched])

\* ---- GET /object/<id>: object_detail ----
\* (the 404 branch needs an empty record, which the upstream never sends for
\* a 200 reply)
object_detail_status(ret) == IF ret = None THEN 502 ELSE 200

ObjectDetail(object_id, up) ==
    /\ pc \in Ready
    /\ LET r == get_object(cache, object_id, up) IN
       /\ cache' = r.cache
       /\ call' = CallOf(object_id, r)
       /\ Track(object_id, r)
       /\ resp' = [handler |-> "object_detail", status |-> object_detail_status(r.ret)]
    /\ pc' = "done"
    /\ pick' = NoPick
    /\ view' = NoView
    /\ dcall' = None
    /\ UNCHANGED <<deptCache, deptFailed, fin, fout>>

\* ---- pick_random_object(max_tries), called by GET /random ----
\* faulty variant: only the small image counts
has_image_small_only(obj) == obj.primaryImageSmall /= ""

\* line 81
has_image(obj) == obj.primaryImageSmall /= "" \/ obj.primaryImage /= ""

\* faulty variant: one iteration too many
loop_runs_inclusive(tries, max_tries) == tries <= max_tries

\* line 75: for _ in range(max_tries)
loop_runs(tries, max_tries) == tries < max_tries

\* lines 68-73: the call that lists all identifiers
pick_list(p, reply) ==
    IF reply = None
    THEN [pc |-> "done", pick |-> [p EXCEPT !.list = "fail", !.result = None]]
    ELSE LET all_ids == ObjectIDsOrEmpty(reply[1]) IN
         IF all_ids = <<>>
         THEN [pc |-> "done", pick |-> [p EXCEPT !.list = "empty", !.result = None]]
         ELSE [pc |-> "pick", pick |-> [p EXCEPT !.list = "ok", !.all_ids = all_ids]]

\* faulty variant: a failed fetch ends the pick
pick_iter_abort(p, oid, ret) ==
    IF ret = None
    THEN [pc |-> "done", pick |-> [p EXCEPT !.tries = @ + 1, !.result = None]]
    ELSE IF has_image(ret[1])
    THEN [pc |-> "done", pick |-> [p EXCEPT !.tries = @ + 1, !.result = Some(oid)]]
    ELSE [pc |-> "pick", pick |-> [p EXCEPT !.tries = @ + 1]]

\* lines 77-82: one iteration, after get_object(int(oid)) gave ret
pick_iter(p, oid, ret) ==
    IF ret = None
    THEN [pc |-> "pick", pick |-> [p EXCEPT !.tries = @ + 1]]
    ELSE IF has_image(ret[1])
    THEN [pc |-> "done", pick |-> [p EXCEPT !.tries = @ + 1, !.result = Some(oid)]]
    ELSE [pc |-> "pick", pick |-> [p EXCEPT !.tries = @ + 1]]

\* random_pick: 502 when pick_random_object found nothing, else a redirect
random_pick_status(result) == IF result = None THEN 502 ELSE 302

PickFrame ==
    /\ view' = NoView
    /\ dcall' = None
    /\ Untracked
    /\ UNCHANGED <<deptCache, deptFailed, fin, fout>>

PickStart(max_tries, reply) ==
    /\ pc \in Ready
    /\ LET n == pick_list([NoPick EXCEPT !.max_tries = max_tries], reply) IN
       /\ pc' = n.pc
       /\ pick' = n.pick
       /\ resp' = IF n.pc = "done"
                  THEN [handler |-> "random_pick", status |-> random_pick_status(n.pick.result)]
                  ELSE NoResp
    /\ call' = None
    /\ UNCHANGED cache
    /\ PickFrame

PickDraw(oid, up) ==
    /\ pc = "pick"
    /\ loop_runs(pick.tries, pick.max_tries)
    /\ oid \in Range(pick.all_ids)
    /\ LET r == get_object(cache, oid, up)
           n == pick_iter(pick, oid, r.ret)
       IN
       /\ cache' = r.cache
       /\ call' = CallOf(oid, r)
       /\ pc' = n.pc
       /\ pick' = [n.pick EXCEPT
                     !.draws = @ + 1,
                     !.nFail = IF r.ret = None THEN @ + 1 ELSE @,
                     !.withImage = IF r.ret /= None /\ CarriesImage(r.ret[1]) THEN @ + 1 ELSE @]
       /\ resp' = IF n.pc = "done"
                  THEN [handler |-> "random_pick", status |-> random_pick_status(n.pick.result)]
                  ELSE resp
    /\ PickFrame

\* line 83: the budget is spent
PickExhaust ==
    /\ pc = "pick"
    /\ ~loop_runs(pick.tries, pick.max_tries)
    /\ pc' = "done"
    /\ pick' = [pick EXCEPT !.result = None]
    /\ resp' = [handler |-> "random_pick", status |-> random_pick_status(None)]
    /\ call' = None
    /\ UNCHANGED cache
    /\ PickFrame

\* every content the memo table of get_object can have
Entries == UNION {{[id |-> oid, obj |-> o] : o \in Objects(oid)} : oid \in Ids}

Caches ==
    {c \in SeqsUpTo(Entries, CacheSize) :
        \A k1, k2 \in 1..Len(c) : c[k1].id = c[k2].id => k1 = k2}

\* one call of pick_random_object, made in any state of the memo table
InitPick ==
    /\ cache \in Caches
    /\ deptCache = None
    /\ pc = "idle"
    /\ resp = NoResp
    /\ pick = NoPick
    /\ view = NoView
    /\ call = None
    /\ dcall = None
    /\ hist = [j \in Ids |-> None]
    /\ failedLast = {}
    /\ deptFailed = FALSE
    /\ before = None
    /\ fin = None
    /\ fout = None

NextPick ==
    \/ /\ pc = "idle"
       /\ \E max_tries \in 0..MaxTries, reply \in IdsReplies(AllIdLists) :
             PickStart(max_tries, reply)
    \/ \E oid \in Ids : \E up \in RepliesTo(cache, oid) : PickDraw(oid, up)
    \/ PickExhaust

SpecPick == InitPick /\ [][NextPick]_vars

\* ---- search_objects(q, has_images, department_id, artist_or_culture) ----
\* A params dict is a function from the keys present to their values.
WithKey(d, k, v) == [x \in DOMAIN d \cup {k} |-> IF x = k THEN v ELSE d[x]]

\* faulty variant: the query is sent as given
search_params_raw_q(q, has_images, department_id, artist_or_culture) ==
    LET p0 == [x \in {"q"} |-> q]
        p1 == IF has_images THEN WithKey(p0, "hasImages", "true") ELSE p0
        p2 == IF department_id /= None /\ department_id[1] /= 0
              THEN WithKey(p1, "departmentId", department_id[1]) ELSE p1
        p3 == IF artist_or_culture /= None /\ artist_or_culture[1] /= ""
              THEN WithKey(p2, "artistOrCulture", artist_or_culture[1]) ELSE p2
    IN p3

\* lines 54-60.  department_id and artist_or_culture are optional values.
search_params(q, has_images, department_id, artist_or_culture) ==
    LET p0 == [x \in {"q"} |-> IF q = "" THEN "*" ELSE q]
        p1 == IF has_images THEN WithKey(p0, "hasImages", "true") ELSE p0
        p2 == IF department_id /= None /\ department_id[1] /= 0
              THEN WithKey(p1, "departmentId", department_id[1]) ELSE p1
        p3 == IF artist_or_culture /= None /\ artist_or_culture[1] /= ""
              THEN WithKey(p2, "artistOrCulture", artist_or_culture[1]) ELSE p2
    IN p3

\* lines 62-63: None when _get_json raises
search_result(reply) ==
    IF reply = None THEN None ELSE Some(ObjectIDsOrEmpty(reply[1]))

\* ---- GET /: index ----
\* request.args.get(name, default, type=int): an absent or unparsable
\* parameter is None here
page_of(raw) == Max(IF raw = None THEN DefaultPage ELSE raw[1], 1)

page_size_of(raw) ==
    Min(Max(IF raw = None THEN DefaultPageSize ELSE raw[1], 1), MaxPageSize)

\* line 285: bool(q or department_id or artist_or_culture)
is_searched(q, department_id, artist_or_culture) ==
    \/ q /= ""
    \/ (department_id /= None /\ department_id[1] /= 0)
    \/ artist_or_culture /= ""

\* l[a:b] of Python for 0 <= a
PySlice(l, a, b) == SubSeq(l, Min(a, Len(l)) + 1, Min(b, Len(l)))

\* faulty variant: pages counted from 0
page_slice_from_zero(ids, page, page_size) ==
    LET start == page * page_size
        end == start + page_size
    IN PySlice(ids, start, end)

\* lines 291-293
page_slice(ids, page, page_size) ==
    LET start == (page - 1) * page_size
        end == start + page_size
    IN PySlice(ids, start, end)

\* lines 272-279
index_departments(v, ret) ==
    IF ret = None
    THEN [v EXCEPT !.departments = <<>>, !.dept_note = Some("departments failed")]
    ELSE [v EXCEPT !.departments = ret[1], !.dept_note = None]

\* faulty variant: a failed search is swallowed
index_search_swallow(v, found) ==
    IF found = None
    THEN v
    ELSE [v EXCEPT !.total = Len(found[1]),
                   !.page_ids = page_slice(found[1], v.page, v.page_size)]

\* lines 289-293 and 308-309, up to the loop over page_ids: found is what
\* search_objects returned (None: it raised)
index_search(v, found) ==
    IF found = None
    THEN [v EXCEPT !.error_msg = Some("MET API request failed")]
    ELSE [v EXCEPT !.total = Len(found[1]),
                   !.page_ids = page_slice(found[1], v.page, v.page_size)]

\* faulty variant: a failed fetch ends the loop with a page error
index_iter_stop(v, ret) ==
    IF ret = None
    THEN [v EXCEPT !.i = Len(v.page_ids) + 1, !.error_msg = Some("MET API request failed")]
    ELSE LET obj == ret[1] IN
         [v EXCEPT !.i = @ + 1,
                   !.results = Append(@,
                       [objectID |-> obj.objectID,
                        img |-> IF obj.primaryImageSmall /= "" THEN obj.primaryImageSmall
                                ELSE obj.primaryImage,
                        detail_url |-> obj.objectID])]

\* lines 294-307: one iteration, after get_object(int(oid)) gave ret
index_iter(v, ret) ==
    IF ret = None
    THEN [v EXCEPT !.i = @ + 1]
    ELSE LET obj == ret[1] IN
         [v EXCEPT !.i = @ + 1,
                   !.results = Append(@,
                       [objectID |-> obj.objectID,
                        img |-> IF obj.primaryImageSmall /= "" THEN obj.primaryImageSmall
                                ELSE obj.primaryImage,
                        detail_url |-> obj.objectID])]

\* math.ceil(a / b)
Ceil(a, b) == (a + b - 1) \div b

\* A pagination entry.  kind "page" has the label str(p); "prev" and "next"
\* have the fixed labels.  url is the page the link leads to, 0 for "".
Entry(kind, p, url, active, disabled) ==
    [kind |-> kind, p |-> p, url |-> url, active |-> active, disabled |-> disabled]

\* faulty variant: the window is not cut at the last page
end_page_unclipped(total_pages, page) == page + 2

\* line 326
end_page(total_pages, page) == Min(total_pages, page + 2)

\* line 325
start_page(page) == Max(1, page - 2)

\* lines 312-335
build_pagination(total, page, page_size) ==
    IF total /= 0
    THEN LET total_pages == Max(1, Ceil(total, page_size))
             prev == IF page > 1 THEN Entry("prev", 0, page - 1, FALSE, FALSE)
                     ELSE Entry("prev", 0, 0, FALSE, TRUE)
             start_p == start_page(page)
             end_p == end_page(total_pages, page)
             nums == [k \in 1..Max(0, end_p - start_p + 1) |->
                        Entry("page", start_p + k - 1, start_p + k - 1,
                              start_p + k - 1 = page, FALSE)]
             next == IF page < total_pages THEN Entry("next", 0, page + 1, FALSE, FALSE)
                     ELSE Entry("next", 0, 0, FALSE, TRUE)
         IN [pagination |-> <<prev>> \o nums \o <<next>>, total_pages |-> total_pages]
    ELSE [pagination |-> <<>>, total_pages |-> 0]

\* line 351: dept_note or error_msg
error_shown(v) == IF v.dept_note /= None THEN v.dept_note ELSE v.error_msg

IndexFrame ==
    /\ pick' = NoPick
    /\ Untracked
    /\ UNCHANGED <<fin, fout>>

\* lines 264-293: parameters, departments, search, slice
IndexStart(q, has_images, department_id, artist_or_culture, rawpage, rawsize, dup, sup) ==
    /\ pc \in Ready
    /\ LET d == get_departments(deptCache, dup)
           v0 == [NoView EXCEPT !.page = page_of(rawpage),
                                !.page_size = page_size_of(rawsize),
                                !.i = 1]
           v1 == index_departments(v0, d.ret)
           searched == is_searched(q, department_id, artist_or_culture)
           v2 == [v1 EXCEPT !.searched = searched,
                            !.given = (q /= "" \/ department_id /= None
                                       \/ artist_or_culture /= "")]
           \* line 289 passes artist_or_culture or None
           found == search_result(sup)
       IN
       /\ deptCache' = d.cache
       /\ dcall' = Some([ret |-> d.ret, fetched |-> d.fetched, refail |-> deptFailed])
       /\ deptFailed' = (d.ret = None)
       /\ view' = IF searched
                  THEN [index_search(v2, found) EXCEPT
                          !.search = IF sup = None THEN "fail" ELSE "ok",
                          !.ids = IF found = None THEN <<>> ELSE found[1]]
                  ELSE v2
    /\ pc' = "index"
    /\ resp' = NoResp
    /\ call' = None
    /\ UNCHANGED cache
    /\ IndexFrame

\* lines 294-307: the next identifier of the page
IndexFetch(oid, up) ==
    /\ pc = "index"
    /\ view.i <= Len(view.page_ids)
    /\ oid = view.page_ids[view.i]
    /\ LET r == get_object(cache, oid, up) IN
       /\ cache' = r.cache
       /\ call' = CallOf(oid, r)
       /\ view' = [index_iter(view, r.ret) EXCEPT
                     !.log = Append(@, [id |-> oid, ret |-> r.ret, fetched |-> r.fetched])]
    /\ dcall' = None
    /\ UNCHANGED <<pc, resp, deptCache, deptFailed>>
    /\ IndexFrame

\* lines 312-353: pagination and the page
IndexRender ==
    /\ pc = "index"
    /\ view.i > Len(view.page_ids)
    /\ LET b == build_pagination(view.total, view.page, view.page_size) IN
       view' = [view EXCEPT !.pagination = b.pagination, !.total_pages = b.total_pages,
                            !.shown = error_shown(view)]
    /\ pc' = "done"
    /\ resp' = [handler |-> "index", status |-> 200]
    /\ call' = None
    /\ dcall' = None
    /\ UNCHANGED <<cache, deptCache, deptFailed>>
    /\ IndexFrame

Queries == {"", "cat"}
DepartmentIds == {None, Some(0), Some(1)}
Artists == {"", "monet"}
RawPages == {None} \cup {Some(n) : n \in 0..MaxPage}
RawSizes == {None, Some(0), Some(1), Some(2), Some(3), Some(25)}

InitIndex == Cold /\ fin = None /\ fout = None

\* one request served by a process whose memo tables are empty
NextIndex ==
    \/ /\ pc = "idle"
       /\ \E q \in Queries, has_images \in BOOLEAN, department_id \in DepartmentIds,
             artist_or_culture \in Artists, rawpage \in RawPages, rawsize \in RawSizes,
             dup \in DeptRepliesTo(deptCache), sup \in IdsReplies(SearchLists) :
             IndexStart(q, has_images, department_id, artist_or_culture,
                        rawpage, rawsize, dup, sup)
    \/ \E oid \in Ids : \E up \in RepliesTo(cache, oid) : IndexFetch(oid, up)
    \/ IndexRender

SpecIndex == InitIndex /\ [][NextIndex]_vars

\* ---- the memo tables over the life of a process ----
\* the table of get_object only ever holds one of Caches
CacheInCaches == cache \in Caches

\* detail pages and the home page (GET / without a search), in any order
Init == Cold /\ fin = None /\ fout = None

Next ==
    \/ \E object_id \in Ids : \E up \in RepliesTo(cache, object_id) :
          ObjectDetail(object_id, up)
    \/ \E department_id \in {None, Some(0)}, dup \in DeptRepliesTo(deptCache) :
          IndexStart("", TRUE, department_id, "", None, None, dup, None)
    \/ IndexRender

Spec == Init /\ [][Next]_vars

\* ---- search_objects and the pagination of index as functions of their inputs ----
SearchInputs ==
    {[fn |-> "search_objects", q |-> q, has_images |-> h, department_id |-> d,
      artist_or_culture |-> a, reply |-> r] :
        q \in {"", "cat", "*"}, h \in BOOLEAN,
        d \in {None} \cup {Some(n) : n \in 0..2},
        a \in {None, Some(""), Some("monet")},
        r \in IdsReplies(SearchLists)}

InitSearch == Cold /\ fin \in {Some(x) : x \in SearchInputs} /\ fout = None

Search ==
    /\ fin /= None
    /\ fout = None
    /\ LET a == fin[1] IN
       fout' = Some([params |-> search_params(a.q, a.has_images, a.department_id,
                                              a.artist_or_culture),
                     ret |-> search_result(a.reply)])
    /\ UNCHANGED <<cache, deptCache, pc, resp, pick, view, call, dcall, hist,
                   failedLast, deptFailed, before, fin>>

SpecSearch == InitSearch /\ [][Search]_vars

PaginationInputs ==
    {[fn |-> "pagination", total |-> t, rawpage |-> rp, rawsize |-> rs] :
        t \in 0..MaxTotal, rp \in RawPages,
        rs \in {None} \cup {Some(n) : n \in 0..(MaxPageSize + 1)}}

InitPagination == Cold /\ fin \in {Some(x) : x \in PaginationInputs} /\ fout = None

Paginate ==
    /\ fin /= None
    /\ fout = None
    /\ LET a == fin[1]
           page == page_of(a.rawpage)
           page_size == page_size_of(a.rawsize)
           b == build_pagination(a.total, page, page_size)
       IN fout' = Some([page |-> page, page_size |-> page_size,
                        pagination |-> b.pagination, total_pages |-> b.total_pages])
    /\ UNCHANGED <<cache, deptCache, pc, resp, pick, view, call, dcall, hist,
                   failedLast, deptFailed, before, fin>>

SpecPagination == InitPagination /\ [][Paginate]_vars

(***************************************************************************)
(* Claims                                                                  *)
(***************************************************************************)

PickStep == (\E oid \in Ids : \E up \in RepliesTo(cache, oid) : PickDraw(oid, up)) \/ PickExhaust

\* C1: pick_random_object(max_tries) terminates.  Every draw is counted and
\* the count never passes max_tries; while the loop is running a step is
\* always possible (a draw, or the exit once the budget is spent); and a call
\* that got a non-empty identifier list and accepted none of its draws returns
\* None after exactly max_tries draws.
C1_PickTerminates ==
    /\ pick.draws <= pick.max_tries
    /\ pc = "pick" => (pick.draws = pick.tries /\ pick.list = "ok" /\ ENABLED PickStep)
    /\ (pc = "done" /\ pick.list = "ok" /\ pick.withImage = 0) =>
          /\ pick.result = None
          /\ pick.draws = pick.max_tries
          /\ resp = [handler |-> "random_pick", status |-> 502]

\* the whole budget was spent on failures and image-less records
C1_Witness ==
    /\ pc = "done"
    /\ pick.list = "ok"
    /\ pick.result = None
    /\ pick.draws = MaxTries
    /\ pick.nFail >= 1
    /\ pick.nFail < pick.draws

\* C2: an identifier returned by pick_random_object is a member of the list
\* the upstream returned, the record fetched for it in the last draw carries
\* a primary-image reference, and that draw is the only one of the call
\* whose record carried one: the loop never runs on after such a draw.
C2_FirstAccepted ==
    /\ pick.withImage <= 1
    /\ pc = "pick" => (pick.withImage = 0 /\ pick.result = None)
    /\ pick.withImage = 1 => pick.result /= None
    /\ pick.result /= None =>
          /\ pc = "done"
          /\ pick.result[1] \in Range(pick.all_ids)
          /\ call /= None
          /\ call[1].id = pick.result[1]
          /\ call[1].ret /= None
          /\ CarriesImage(call[1].ret[1])
          /\ pick.withImage = 1
          /\ pick.draws = pick.tries

\* accepted on the third draw, after one failure and one image-less record
C2_Witness ==
    /\ pick.result /= None
    /\ pick.draws = 3
    /\ pick.nFail = 1
    /\ call[1].ret[1].primaryImageSmall = ""

\* C3: a failed object fetch consumes one try and leaves the loop running
\* with the same list and budget; a failed list call ends the pick with None,
\* no draw and no get_object call.
C3_FetchFailureIsRetry ==
    [][ /\ (pc = "pick" /\ call' /= None /\ call'[1].ret = None) =>
              /\ pc' = "pick"
              /\ pick'.tries = pick.tries + 1
              /\ pick'.result = None
              /\ pick'.all_ids = pick.all_ids
              /\ pick'.max_tries = pick.max_tries
        /\ pick'.list = "fail" =>
              /\ pc' = "done"
              /\ pick'.result = None
              /\ pick'.draws = 0
              /\ call' = None
              /\ cache' = cache
      ]_vars

\* every draw but the last failed, and the last draw of the budget was accepted
C3_Witness ==
    /\ pick.result /= None
    /\ pick.draws = MaxTries
    /\ pick.nFail = MaxTries - 1

\* ---- index ----
\* ids[(page-1)*page_size .. page*page_size), written without slicing
ExpectedPage(ids, page, page_size) ==
    LET first == (page - 1) * page_size
        n == Max(0, Min(page_size, Len(ids) - first))
    IN [k \in 1..n |-> ids[first + k]]

LogIds(log) == [k \in 1..Len(log) |-> log[k].id]

\* C4: after a successful search the page identifiers are the slice
\* ids[(page-1)*page_size .. page*page_size) in upstream order, the
\* identifiers looked up are those, in that order, total is len(ids), and
\* for total > 0 total_pages is the least n with n * page_size >= total.
C4_PageSlice ==
    view.search = "ok" =>
        /\ view.page >= 1
        /\ view.page_size \in 1..MaxPageSize
        /\ view.page_ids = ExpectedPage(view.ids, view.page, view.page_size)
        /\ view.total = Len(view.ids)
        /\ Len(view.log) <= Len(view.page_ids)
        /\ LogIds(view.log) = SubSeq(view.page_ids, 1, Len(view.log))
        /\ pc = "done" =>
              /\ LogIds(view.log) = ExpectedPage(view.ids, view.page, view.page_size)
              /\ view.total > 0 =>
                    /\ view.total_pages * view.page_size >= view.total
                    /\ (view.total_pages - 1) * view.page_size < view.total

\* the second, shorter page of three results, two per page
C4_Witness ==
    /\ pc = "done"
    /\ view.search = "ok"
    /\ view.page = 2
    /\ view.page_size = 2
    /\ view.total = 3
    /\ Len(view.log) = 1
    /\ view.total_pages = 2

\* the entry index() appends for a record
Card(obj) ==
    [objectID |-> obj.objectID,
     img |-> IF obj.primaryImageSmall /= "" THEN obj.primaryImageSmall ELSE obj.primaryImage,
     detail_url |-> obj.objectID]

RECURSIVE Fetched(_)
Fetched(log) ==
    IF log = <<>> THEN <<>>
    ELSE LET rest == Fetched(SubSeq(log, 1, Len(log) - 1))
             last == log[Len(log)]
         IN IF last.ret = None THEN rest ELSE Append(rest, Card(last.ret[1]))

\* C5: after a successful search a failed detail fetch is skipped: the
\* results are the records of the lookups that succeeded, in page order, the
\* search error stays unset, total stays len(ids), and when the page is
\* rendered every identifier of the page has been looked up.
C5_FetchFailureSkipped ==
    view.search = "ok" =>
        /\ view.results = Fetched(view.log)
        /\ view.error_msg = None
        /\ view.total = Len(view.ids)
        /\ \A k \in 1..Len(view.log) :
              view.log[k].ret /= None => view.log[k].ret[1].objectID = view.log[k].id
        /\ pc = "done" =>
              /\ LogIds(view.log) = view.page_ids
              /\ resp = [handler |-> "index", status |-> 200]
              /\ view.dept_note = None => view.shown = None

\* a page of three whose first and last fetch failed
C5_Witness ==
    /\ pc = "done"
    /\ view.search = "ok"
    /\ Len(view.log) = 3
    /\ view.log[1].ret = None
    /\ view.log[2].ret /= None
    /\ view.log[3].ret = None
    /\ Len(view.results) = 1
    /\ view.total = 3

\* C10: when the search call fails no object is looked up, total is 0,
\* results and pagination are empty and a non-empty error message reaches
\* the page; when no query, department or artist/culture is given no search
\* call and no object lookup is made.
C10_SearchFailure ==
    /\ view.search = "fail" =>
          /\ view.log = <<>>
          /\ view.page_ids = <<>>
          /\ view.total = 0
          /\ view.results = <<>>
          /\ view.pagination = <<>>
          /\ view.error_msg /= None
          /\ view.error_msg[1] /= ""
          /\ call = None
          /\ cache = <<>>
          /\ pc = "done" => (view.shown /= None /\ view.shown[1] /= "")
    /\ (pc \in {"index", "done"} /\ ~view.given) =>
          /\ view.search = "none"
          /\ view.log = <<>>
          /\ call = None
          /\ cache = <<>>

\* the search failed, the departments loaded, and the page shows the search error
C10_Witness ==
    /\ pc = "done"
    /\ view.search = "fail"
    /\ view.dept_note = None
    /\ view.shown = view.error_msg
    /\ view.given

\* ---- the memo tables ----
\* C6 as stated: once get_object(id) has returned a record, every later
\* get_object(id) returns that record without an upstream request, whatever
\* was looked up in between.
C6_MemoizedForever ==
    (call /= None /\ before /= None /\ before[1].prev /= None) =>
        (call[1].ret = before[1].prev /\ ~call[1].fetched)

\* C6 as amended: ... provided fewer than maxsize distinct other ids have
\* been returned by get_object since the last get_object(id) returned (the
\* table evicts its least recently used entry when a new id is stored in a
\* full table).
C6_MemoizedWhileRecent ==
    (call /= None /\ before /= None /\ before[1].prev /= None
       /\ before[1].gap < CacheSize) =>
        (call[1].ret = before[1].prev /\ ~call[1].fetched)

\* a hit after as many other ids as the table tolerates
C6_Witness ==
    /\ call /= None
    /\ before /= None
    /\ before[1].prev /= None
    /\ before[1].gap = CacheSize - 1
    /\ before[1].gap >= 1
    /\ ~call[1].fetched
    /\ call[1].ret = before[1].prev

\* C8: a failed lookup is not memoized.  A get_object or get_departments
\* call that raises leaves its table as it was and without the key; a call
\* that follows a failed call for the same key asks the upstream again; and
\* every entry of the table is a record a call returned.
C8_FailureNotMemoized ==
    [][ /\ (call' /= None /\ call'[1].ret = None) =>
              /\ cache' = cache
              /\ Find(cache', call'[1].id) = 0
              /\ call'[1].fetched
        /\ (call' /= None /\ before'[1].refail) => call'[1].fetched
        /\ \A k \in 1..Len(cache') :
              /\ cache'[k].id \notin failedLast'
              /\ hist'[cache'[k].id] /= None
              /\ hist'[cache'[k].id][1].obj = cache'[k].obj
        /\ (dcall' /= None /\ dcall'[1].ret = None) =>
              /\ deptCache' = deptCache
              /\ deptCache' = None
              /\ dcall'[1].fetched
        /\ (dcall' /= None /\ dcall'[1].refail) => dcall'[1].fetched
        /\ deptFailed' => deptCache' = None
      ]_vars

\* a lookup that failed last time succeeds now, while the last
\* get_departments call failed
C8_Witness ==
    /\ call /= None
    /\ before[1].refail
    /\ call[1].fetched
    /\ call[1].ret /= None
    /\ Find(cache, call[1].id) > 0
    /\ deptFailed

\* ---- search_objects ----
ParamKeys == {"q", "hasImages", "departmentId", "artistOrCulture"}

\* C7: search_objects never sends an empty q ("*" replaces it, any other q
\* goes unchanged); hasImages="true" is sent exactly when the flag is set;
\* departmentId and artistOrCulture are sent exactly when the filter is
\* present and non-empty (for the department: not None and not 0); a reply
\* without identifiers (no objectIDs, null, or an empty list) gives [].
C7_SearchParams ==
    fout /= None =>
        LET a == fin[1]
            p == fout[1].params
        IN
        /\ DOMAIN p \subseteq ParamKeys
        /\ "q" \in DOMAIN p
        /\ p["q"] /= ""
        /\ p["q"] = IF a.q = "" THEN "*" ELSE a.q
        /\ ("hasImages" \in DOMAIN p) <=> a.has_images
        /\ "hasImages" \in DOMAIN p => p["hasImages"] = "true"
        /\ ("departmentId" \in DOMAIN p) <=>
              (a.department_id /= None /\ a.department_id[1] /= 0)
        /\ "departmentId" \in DOMAIN p => p["departmentId"] = a.department_id[1]
        /\ ("artistOrCulture" \in DOMAIN p) <=>
              (a.artist_or_culture /= None /\ a.artist_or_culture[1] /= "")
        /\ "artistOrCulture" \in DOMAIN p => p["artistOrCulture"] = a.artist_or_culture[1]
        /\ (a.reply /= None /\ a.reply[1].objectIDs.v = <<>>) => fout[1].ret = Some(<<>>)
        /\ (a.reply /= None /\ a.reply[1].objectIDs.t = "list") =>
              fout[1].ret = Some(a.reply[1].objectIDs.v)
        /\ a.reply = None => fout[1].ret = None

\* an empty query with every filter empty and a null result
C7_Witness ==
    /\ fout /= None
    /\ fin[1].fn = "search_objects"
    /\ fin[1].q = ""
    /\ ~fin[1].has_images
    /\ fin[1].department_id = Some(0)
    /\ fin[1].artist_or_culture = Some("")
    /\ fin[1].reply /= None
    /\ fin[1].reply[1].objectIDs.t = "null"
    /\ DOMAIN fout[1].params = {"q"}

\* ---- pagination ----
\* C9: for total > 0 the list is "previous", the numbered pages
\* max(1, page-2) .. min(total_pages, page+2), "next"; previous is disabled
\* exactly when page = 1 and else leads to page-1; next is disabled exactly
\* when page >= total_pages and else leads to page+1; every numbered page is
\* within 1..total_pages and leads to itself; when page <= total_pages
\* exactly one numbered entry is active, the current page.  For total = 0
\* the list is empty.
C9_Pagination ==
    fout /= None =>
        LET total == fin[1].total
            page == fout[1].page
            page_size == fout[1].page_size
            pg == fout[1].pagination
            tp == CHOOSE n \in 0..total :
                     n * page_size >= total /\ (n = 0 \/ (n - 1) * page_size < total)
            nums == SubSeq(pg, 2, Len(pg) - 1)
            lo == Max(1, page - 2)
            hi == Min(tp, page + 2)
        IN
        /\ page >= 1
        /\ page_size \in 1..MaxPageSize
        /\ total = 0 => pg = <<>>
        /\ total > 0 =>
              /\ fout[1].total_pages = tp
              /\ Len(pg) >= 2
              /\ pg[1].kind = "prev"
              /\ ~pg[1].active
              /\ pg[1].disabled <=> page = 1
              /\ pg[1].url = IF page = 1 THEN 0 ELSE page - 1
              /\ pg[Len(pg)].kind = "next"
              /\ ~pg[Len(pg)].active
              /\ pg[Len(pg)].disabled <=> page >= tp
              /\ pg[Len(pg)].url = IF page >= tp THEN 0 ELSE page + 1
              /\ \A k \in 1..Len(nums) :
                    /\ nums[k].kind = "page"
                    /\ ~nums[k].disabled
                    /\ nums[k].p \in 1..tp
                    /\ nums[k].url = nums[k].p
                    /\ nums[k].active <=> nums[k].p = page
              /\ [k \in 1..Len(nums) |-> nums[k].p] = [k \in 1..Max(0, hi - lo + 1) |-> lo + k - 1]
              /\ page <= tp => Cardinality({k \in 1..Len(nums) : nums[k].active}) = 1

\* page 2 of 7: the window 1..4 is cut at the first page and not at the last
C9_Witness ==
    /\ fout /= None
    /\ fin[1].fn = "pagination"
    /\ fin[1].total = 7
    /\ fout[1].page_size = 1
    /\ fout[1].page = 2
    /\ Len(fout[1].pagination) = 6
    /\ ~fout[1].pagination[6].disabled

====
